---- MODULE Spec2Model ----
(***************************************************************************)
(* Model of src/main.py (AI Wealth Daily): the indicator functions, the    *)
(* signal classifier, analyze_stock, get_top_movers and                    *)
(* get_market_summary.                                                     *)
(*                                                                         *)
(* Numbers.  The program computes with IEEE-754 doubles (numpy float64).   *)
(* A double is modelled as a record [k, n, d]: k = "fin" is the exact      *)
(* rational n/d (d > 0, lowest terms), k = "nan" is NaN, k = "inf" is      *)
(* +infinity (n = 1) or -infinity (n = -1).  numpy scalar division by zero *)
(* does not raise: it yields inf or NaN, and the operators below do the    *)
(* same.  Binary rounding error of finite results and the sign of zero are *)
(* not represented.  Prices are positive integers (price units), volumes   *)
(* are non-negative integers.                                              *)
(***************************************************************************)
EXTENDS Integers, Sequences, FiniteSets, TLC

VARIABLES
    pc,               \* position of get_top_movers: "scan", "done", "raised"
    limit,            \* argument of get_top_movers
    idx,              \* position of the for loop in WATCHLIST (1-based)
    calls,            \* one entry per finished analyze_stock call
    analyzed_stocks,  \* the list get_top_movers accumulates and sorts
    top_stocks,       \* the list get_top_movers returns
    sig_in,           \* arguments of a get_technical_signals call
    signals,          \* its result (<<>> before the call returns)
    rsi_in,           \* arguments of a calculate_rsi call
    rsi_out,          \* its result (<<>> before the call returns)
    feeds,            \* what the three fetches of get_market_summary give
    market_summary,   \* its result (<<>> before the call returns)
    main_pc,          \* position of main
    printed,          \* the outcome messages main has printed
    html_content,     \* the rendered newsletter (<<>> before it exists)
    local_file,       \* the saved local copy (<<>> before it exists)
    requests          \* the publish requests sent to the newsletter platform

vars == <<pc, limit, idx, calls, analyzed_stocks, top_stocks,
          sig_in, signals, rsi_in, rsi_out, feeds, market_summary,
          main_pc, printed, html_content, local_file, requests>>

scanVars == <<pc, limit, idx, calls, analyzed_stocks, top_stocks>>
sigVars == <<sig_in, signals>>
rsiVars == <<rsi_in, rsi_out>>
sumVars == <<feeds, market_summary>>
mainVars == <<main_pc, printed, html_content, local_file, requests>>

(***************************************************************************)
(* float64 arithmetic                                                      *)
(***************************************************************************)
Abs(i) == IF i < 0 THEN -i ELSE i

Sgn(i) == IF i < 0 THEN -1 ELSE IF i > 0 THEN 1 ELSE 0

Min(a, b) == IF a < b THEN a ELSE b

RECURSIVE GCD(_, _)
GCD(a, b) == IF b = 0 THEN a ELSE GCD(b, a % b)

Fin(n, d) ==
    LET g == GCD(Abs(n), d)
    IN  [k |-> "fin", n |-> n \div g, d |-> d \div g]

NaN == [k |-> "nan", n |-> 0, d |-> 1]

Inf(s) == [k |-> "inf", n |-> s, d |-> 1]

IsFin(x) == x.k = "fin"

IsNaN(x) == x.k = "nan"

FNeg(x) == IF x.k = "nan" THEN NaN ELSE [x EXCEPT !.n = -x.n]

FAbs(x) == IF x.k = "nan" THEN NaN ELSE [x EXCEPT !.n = Abs(x.n)]

FAdd(x, y) ==
    IF x.k = "nan" \/ y.k = "nan" THEN NaN
    ELSE IF x.k = "inf" /\ y.k = "inf"
         THEN IF x.n = y.n THEN x ELSE NaN
    ELSE IF x.k = "inf" THEN x
    ELSE IF y.k = "inf" THEN y
    ELSE Fin(x.n * y.d + y.n * x.d, x.d * y.d)

FSub(x, y) == FAdd(x, FNeg(y))

FMul(x, y) ==
    IF x.k = "nan" \/ y.k = "nan" THEN NaN
    ELSE IF x.k = "inf" \/ y.k = "inf"
         THEN IF x.n = 0 \/ y.n = 0 THEN NaN ELSE Inf(Sgn(x.n) * Sgn(y.n))
    ELSE Fin(x.n * y.n, x.d * y.d)

\* x / y without a guard: a zero divisor gives inf or NaN, never an exception
FDiv(x, y) ==
    IF x.k = "nan" \/ y.k = "nan" THEN NaN
    ELSE IF y.k = "inf"
         THEN IF x.k = "inf" THEN NaN ELSE Fin(0, 1)
    ELSE IF y.n = 0
         THEN IF x.n = 0 THEN NaN ELSE Inf(Sgn(x.n))
    ELSE IF x.k = "inf" THEN Inf(Sgn(x.n) * Sgn(y.n))
    ELSE Fin(Sgn(y.n) * x.n * y.d, Abs(y.n) * x.d)

\* x < y; every comparison with NaN is false
FLt(x, y) ==
    IF x.k = "nan" \/ y.k = "nan" THEN FALSE
    ELSE IF x.k = "inf" THEN x.n = -1 /\ ~(y.k = "inf" /\ y.n = -1)
    ELSE IF y.k = "inf" THEN y.n = 1
    ELSE LET qx == x.n \div x.d
             qy == y.n \div y.d
         IN  \/ qx < qy
             \/ qx = qy /\ (x.n % x.d) * y.d < (y.n % y.d) * x.d

FGt(x, y) == FLt(y, x)

Pow10(nd) == IF nd = 0 THEN 1 ELSE IF nd = 1 THEN 10 ELSE 100

\* round(x, nd) of a float64: nearest multiple of 10^-nd, halves to even;
\* NaN and the infinities are returned unchanged
Round(x, nd) ==
    IF x.k # "fin" THEN x
    ELSE LET s == Pow10(nd)
             q == (x.n * s) \div x.d
             r == (x.n * s) % x.d
             m == IF 2 * r < x.d THEN q
                  ELSE IF 2 * r > x.d THEN q + 1
                  ELSE IF q % 2 = 0 THEN q ELSE q + 1
         IN  Fin(m, s)

(***************************************************************************)
(* pandas helpers over a column (a sequence of integers)                   *)
(***************************************************************************)
RECURSIVE SumRange(_, _, _)
SumRange(s, lo, hi) == IF lo > hi THEN 0 ELSE s[hi] + SumRange(s, lo, hi - 1)

\* s.rolling(window).mean().iloc[-1]: NaN when fewer than window values
RollingMeanLast(s, window) ==
    IF Len(s) < window THEN NaN
    ELSE Fin(SumRange(s, Len(s) - window + 1, Len(s)), window)

RECURSIVE MaxRange(_, _)
MaxRange(s, hi) ==
    IF hi = 1 THEN s[1]
    ELSE LET m == MaxRange(s, hi - 1) IN IF s[hi] > m THEN s[hi] ELSE m

RECURSIVE MinRange(_, _)
MinRange(s, hi) ==
    IF hi = 1 THEN s[1]
    ELSE LET m == MinRange(s, hi - 1) IN IF s[hi] < m THEN s[hi] ELSE m

(***************************************************************************)
(* calculate_rsi, calculate_sma                                            *)
(***************************************************************************)
\* delta.where(delta > 0, 0): the first difference is NaN and becomes 0
GainCol(prices) ==
    [i \in 1..Len(prices) |->
        IF i > 1 /\ prices[i] - prices[i-1] > 0
        THEN prices[i] - prices[i-1] ELSE 0]

\* -delta.where(delta < 0, 0)
LossCol(prices) ==
    [i \in 1..Len(prices) |->
        IF i > 1 /\ prices[i] - prices[i-1] < 0
        THEN -(prices[i] - prices[i-1]) ELSE 0]

calculate_rsi(prices, period) ==
    LET gain == RollingMeanLast(GainCol(prices), period)
        loss == RollingMeanLast(LossCol(prices), period)
        rs   == FDiv(gain, loss)
    IN  FSub(Fin(100, 1), FDiv(Fin(100, 1), FAdd(Fin(1, 1), rs)))

calculate_sma(prices, period) == RollingMeanLast(prices, period)

(***************************************************************************)
(* get_technical_signals                                                   *)
(***************************************************************************)
rsi_signal(rsi) ==
    IF FGt(rsi, Fin(70, 1)) THEN "Sobrecompra"
    ELSE IF FLt(rsi, Fin(30, 1)) THEN "Sobreventa"
    ELSE "Neutral"

\* x >= y; false when either is NaN
FGe(x, y) == FGt(x, y) \/ (x.k # "nan" /\ y.k # "nan" /\ x = y)

\* faulty variant: the comparisons are not strict
trend_signal_NonStrict(price, sma20, sma50) ==
    IF FGe(price, sma20) /\ FGe(sma20, sma50) THEN "Alcista"
    ELSE IF FGe(sma20, price) /\ FGe(sma50, sma20) THEN "Bajista"
    ELSE "Mixta/Consolidacion"

trend_signal(price, sma20, sma50) ==
    IF FGt(price, sma20) /\ FGt(sma20, sma50) THEN "Alcista"
    ELSE IF FLt(price, sma20) /\ FLt(sma20, sma50) THEN "Bajista"
    ELSE "Mixta/Consolidacion"

\* faulty variant: equal averages count as a golden cross
ma_signal_NonStrict(sma20, sma50) ==
    IF FGe(sma20, sma50) THEN "Golden Cross (alcista)"
    ELSE "Death Cross (bajista)"

ma_signal(sma20, sma50) ==
    IF FGt(sma20, sma50) THEN "Golden Cross (alcista)"
    ELSE "Death Cross (bajista)"

\* the dict of lines 63-67, before any signal is set
EmptySignals == [rsi_signal |-> "", trend_signal |-> "", ma_signal |-> ""]

get_technical_signals(rsi, price, sma20, sma50) ==
    [rsi_signal   |-> rsi_signal(rsi),
     trend_signal |-> trend_signal(price, sma20, sma50),
     ma_signal    |-> ma_signal(sma20, sma50)]

(***************************************************************************)
(* analyze_stock                                                           *)
(***************************************************************************)
MinBars == 50

RsiPeriod == 14

Sma20Period == 20

Sma50Period == 50

VolumeWindow == 20

Column(hist, name) == [i \in 1..Len(hist) |-> hist[i][name]]

\* the values analyze_stock computes from a history of at least MinBars
\* bars, before rounding (lines 105-130)
Indicators(hist) ==
    LET close          == Column(hist, "Close")
        volume         == Column(hist, "Volume")
        n              == Len(hist)
        current_price  == Fin(close[n], 1)
        previous_close == Fin(close[n-1], 1)
        high_52w       == Fin(MaxRange(Column(hist, "High"), n), 1)
        low_52w        == Fin(MinRange(Column(hist, "Low"), n), 1)
        avg_volume     == RollingMeanLast(volume, VolumeWindow)
        current_volume == Fin(volume[n], 1)
    IN  [current_price    |-> current_price,
         daily_change_pct |->
             FMul(FDiv(FSub(current_price, previous_close), previous_close),
                  Fin(100, 1)),
         high_52w         |-> high_52w,
         low_52w          |-> low_52w,
         position_52w     |->
             FMul(FDiv(FSub(current_price, low_52w), FSub(high_52w, low_52w)),
                  Fin(100, 1)),
         volume_ratio     |->
             IF FGt(avg_volume, Fin(0, 1))
             THEN FDiv(current_volume, avg_volume) ELSE Fin(1, 1),
         rsi              |-> calculate_rsi(close, RsiPeriod),
         sma20            |-> calculate_sma(close, Sma20Period),
         sma50            |-> calculate_sma(close, Sma50Period)]

\* the dict of lines 140-158.  ema12, ema26 and atr are left out: they are
\* computed from the same history without raising and are only printed.
Record(symbol, ind) ==
    [symbol           |-> symbol,
     company_name     |-> symbol,
     sector           |-> "N/A",
     current_price    |-> Round(ind.current_price, 2),
     daily_change_pct |-> Round(ind.daily_change_pct, 2),
     rsi              |-> Round(ind.rsi, 1),
     sma20            |-> Round(ind.sma20, 2),
     sma50            |-> Round(ind.sma50, 2),
     volume_ratio     |-> Round(ind.volume_ratio, 2),
     high_52w         |-> Round(ind.high_52w, 2),
     low_52w          |-> Round(ind.low_52w, 2),
     position_52w     |-> Round(ind.position_52w, 1),
     signals          |-> get_technical_signals(ind.rsi, ind.current_price,
                                                ind.sma20, ind.sma50),
     market_cap       |-> 0]

\* faulty variant: the length test off by one
InsufficientData_OffByOne(hist) == Len(hist) = 0 \/ Len(hist) <= MinBars

\* hist.empty or len(hist) < 50
InsufficientData(hist) == Len(hist) = 0 \/ Len(hist) < MinBars

NoLocals == [daily_change_pct |-> NaN, volume_ratio |-> NaN]

\* The body of the try block.  f is what the data provider does for this
\* symbol: f.raises is "history" when ticker.history raises, "info" when
\* ticker.info raises, "none" otherwise; f.hist is the fetched history.
\* path: "raise" (an exception left the block), "insufficient" (line 103)
\* or "record" (line 140); data is <<>> for None, <<record>> otherwise.
TryBlock(symbol, f) ==
    IF f.raises = "history"
    THEN [path |-> "raise", data |-> <<>>, bars |-> 0, locals |-> NoLocals]
    ELSE IF InsufficientData(f.hist)
    THEN [path |-> "insufficient", data |-> <<>>, bars |-> Len(f.hist),
          locals |-> NoLocals]
    ELSE LET ind == Indicators(f.hist)
             loc == [daily_change_pct |-> ind.daily_change_pct,
                     volume_ratio     |-> ind.volume_ratio]
         IN  IF f.raises = "info"
             THEN [path |-> "raise", data |-> <<>>, bars |-> Len(f.hist),
                   locals |-> loc]
             ELSE [path |-> "record", data |-> <<Record(symbol, ind)>>,
                   bars |-> Len(f.hist), locals |-> loc]

\* faulty variant: no except clause, the exception leaves analyze_stock
analyze_stock_NoExcept(symbol, f) == TryBlock(symbol, f)

\* except Exception: print the error, return None
analyze_stock(symbol, f) ==
    LET r == TryBlock(symbol, f)
    IN  IF r.path = "raise" THEN [r EXCEPT !.path = "error"] ELSE r

(***************************************************************************)
(* What the data provider can return for one symbol                        *)
(***************************************************************************)
Bar(c, h, l, v) == [Close |-> c, High |-> h, Low |-> l, Volume |-> v]

\* n bars: the bar b repeated, then the last bar c
Series(n, b, c) == [i \in 1..n |-> IF i = n THEN c ELSE b]

ShortBars == 10

LongBars == 60

Histories ==
    { Series(0, Bar(20, 20, 20, 9), Bar(20, 20, 20, 9)),
      Series(ShortBars, Bar(20, 20, 20, 9), Bar(21, 21, 20, 19)),
      Series(MinBars - 1, Bar(20, 20, 20, 9), Bar(21, 21, 20, 19)),
      \* +5 % on twice the average volume
      Series(MinBars, Bar(20, 20, 20, 9), Bar(21, 21, 20, 19)),
      \* -8 % on average volume
      Series(MinBars, Bar(25, 25, 25, 10), Bar(23, 25, 23, 10)),
      \* -10 % on average volume
      Series(MinBars, Bar(20, 21, 19, 10), Bar(18, 20, 18, 10)),
      \* flat: every close, high and low equal
      Series(LongBars, Bar(100, 100, 100, 10), Bar(100, 100, 100, 10)),
      \* no volume at all
      Series(MinBars, Bar(50, 50, 50, 0), Bar(51, 51, 50, 0)),
      \* +33.33.. % on average volume
      Series(MinBars, Bar(3, 3, 3, 10), Bar(4, 4, 3, 10)),
      \* +16.66.. % on 1.997.. times the average volume
      Series(MinBars, Bar(6, 6, 6, 900), Bar(7, 7, 6, 1897)) }

Fetches ==
    { [raises |-> "history", hist |-> <<>>],
      [raises |-> "info",
       hist |-> Series(MinBars, Bar(20, 20, 20, 9), Bar(21, 21, 20, 19))] }
    \cup { [raises |-> "none", hist |-> h] : h \in Histories }

(***************************************************************************)
(* get_top_movers                                                          *)
(***************************************************************************)
WatchlistLen == 3

MaxLimit == 5

Symbols == <<"AAPL", "MSFT", "GOOGL", "AMZN", "META", "NVDA">>

WATCHLIST == SubSeq(Symbols, 1, WatchlistLen)

\* abs(data['daily_change_pct']) * data['volume_ratio']
movement_score(data) == FMul(FAbs(data.daily_change_pct), data.volume_ratio)

WithScore(data) ==
    [symbol           |-> data.symbol,
     company_name     |-> data.company_name,
     sector           |-> data.sector,
     current_price    |-> data.current_price,
     daily_change_pct |-> data.daily_change_pct,
     rsi              |-> data.rsi,
     sma20            |-> data.sma20,
     sma50            |-> data.sma50,
     volume_ratio     |-> data.volume_ratio,
     high_52w         |-> data.high_52w,
     low_52w          |-> data.low_52w,
     position_52w     |-> data.position_52w,
     signals          |-> data.signals,
     market_cap       |-> data.market_cap,
     movement_score   |-> movement_score(data)]

\* faulty variant: x goes before the elements with an equal score (unstable sort)
InsertDesc_TiesFirst(sorted, x) ==
    LET notgreater == {j \in 1..Len(sorted) :
                        ~FGt(sorted[j].movement_score, x.movement_score)}
        pos == IF notgreater = {} THEN Len(sorted) + 1
               ELSE CHOOSE j \in notgreater : \A k \in notgreater : j <= k
    IN  SubSeq(sorted, 1, pos - 1) \o <<x>> \o SubSeq(sorted, pos, Len(sorted))

\* x goes before the first element whose score is smaller than its own, so
\* after every element with an equal score
InsertDesc(sorted, x) ==
    LET smaller == {j \in 1..Len(sorted) :
                        FLt(sorted[j].movement_score, x.movement_score)}
        pos == IF smaller = {} THEN Len(sorted) + 1
               ELSE CHOOSE j \in smaller : \A k \in smaller : j <= k
    IN  SubSeq(sorted, 1, pos - 1) \o <<x>> \o SubSeq(sorted, pos, Len(sorted))

RECURSIVE SortedPrefix(_, _)
SortedPrefix(s, n) ==
    IF n = 0 THEN <<>> ELSE InsertDesc(SortedPrefix(s, n - 1), s[n])

\* list.sort(key=movement_score, reverse=True): descending and stable
SortByScoreDesc(s) == SortedPrefix(s, Len(s))

\* faulty variant: the slice keeps one element too many
Slice_OneMore(s, lim) == SubSeq(s, 1, Min(lim + 1, Len(s)))

\* s[:lim]
Slice(s, lim) ==
    IF lim >= 0 THEN SubSeq(s, 1, Min(lim, Len(s)))
    ELSE SubSeq(s, 1, IF Len(s) + lim > 0 THEN Len(s) + lim ELSE 0)

CallEntry(symbol, f, r) ==
    [symbol |-> symbol, raises |-> f.raises, bars |-> Len(f.hist),
     path |-> r.path, locals |-> r.locals]

\* analyze_stock(symbol, f) for every symbol and fetch, evaluated once
AnalyzeTable ==
    [i \in 1..Len(WATCHLIST) |->
        [f \in Fetches |-> analyze_stock(WATCHLIST[i], f)]]

\* one iteration of the for loop (lines 170-177)
ScanStep ==
    /\ pc = "scan"
    /\ idx <= Len(WATCHLIST)
    /\ \E f \in Fetches :
         LET symbol == WATCHLIST[idx]
             r      == AnalyzeTable[idx][f]
         IN  IF r.path = "raise"
             THEN /\ pc' = "raised"
                  /\ UNCHANGED <<idx, calls, analyzed_stocks>>
             ELSE /\ pc' = pc
                  /\ idx' = idx + 1
                  /\ calls' = Append(calls, CallEntry(symbol, f, r))
                  /\ analyzed_stocks' =
                       IF r.data # <<>>
                       THEN Append(analyzed_stocks, WithScore(r.data[1]))
                       ELSE analyzed_stocks
    /\ UNCHANGED <<limit, top_stocks>>
    /\ UNCHANGED <<sigVars, rsiVars, sumVars, mainVars>>

\* after the loop: sort in place, return the slice (lines 182-183)
SortAndReturn ==
    /\ pc = "scan"
    /\ idx > Len(WATCHLIST)
    /\ analyzed_stocks' = SortByScoreDesc(analyzed_stocks)
    /\ top_stocks' = Slice(analyzed_stocks', limit)
    /\ pc' = "done"
    /\ UNCHANGED <<limit, idx, calls>>
    /\ UNCHANGED <<sigVars, rsiVars, sumVars, mainVars>>

IdleScan ==
    /\ pc = "idle" /\ limit = 0 /\ idx = 0
    /\ calls = <<>> /\ analyzed_stocks = <<>> /\ top_stocks = <<>>

IdleSig == sig_in = <<>> /\ signals = EmptySignals

IdleRsi == rsi_in = <<>> /\ rsi_out = <<>>

IdleSum == feeds = <<>> /\ market_summary = <<>>

IdleMain ==
    /\ main_pc = "idle" /\ printed = <<>>
    /\ html_content = <<>> /\ local_file = <<>> /\ requests = <<>>

Init ==
    /\ pc = "scan"
    /\ limit \in 0..MaxLimit
    /\ idx = 1
    /\ calls = <<>>
    /\ analyzed_stocks = <<>>
    /\ top_stocks = <<>>
    /\ IdleSig /\ IdleRsi /\ IdleSum /\ IdleMain

Next == ScanStep \/ SortAndReturn

Spec == Init /\ [][Next]_vars

(***************************************************************************)
(* Claims about get_top_movers and analyze_stock, checked under Spec       *)
(***************************************************************************)
WatchlistIndex(symbol) == CHOOSE i \in 1..Len(WATCHLIST) : WATCHLIST[i] = symbol

SymbolsOf(s) == [i \in 1..Len(s) |-> s[i].symbol]

RecordCalls == {i \in 1..Len(calls) : calls[i].path = "record"}

\* the true product |dailyChangePct| * volumeRatio of the i-th call
TrueProduct(i) ==
    FMul(FAbs(calls[i].locals.daily_change_pct), calls[i].locals.volume_ratio)

\* C1: the returned list is ordered by non-increasing movement_score, and
\* records with equal movement_score keep the order of their symbols in
\* WATCHLIST.
C1_RankedDescendingStable ==
    pc = "done" =>
        \A i, j \in 1..Len(top_stocks) :
            i < j =>
                /\ ~FLt(top_stocks[i].movement_score, top_stocks[j].movement_score)
                /\ top_stocks[i].movement_score = top_stocks[j].movement_score
                     => WatchlistIndex(top_stocks[i].symbol)
                          < WatchlistIndex(top_stocks[j].symbol)

\* the sort moved the last symbol to the front and kept a tie in order
C1_Witness ==
    /\ pc = "done"
    /\ Len(top_stocks) = 3
    /\ top_stocks[1].symbol = WATCHLIST[3]
    /\ top_stocks[2].movement_score = top_stocks[3].movement_score
    /\ FGt(top_stocks[1].movement_score, top_stocks[2].movement_score)

\* C2: a call takes the insufficient-data exit exactly when the fetched
\* history is empty or has fewer than 50 bars (a history of exactly 50 bars
\* is analysed); when exactly one ticker has such a short history and every
\* other fetch is good, the collected records are those of all the other
\* tickers, in watchlist order, each once.
C2_ShortSeriesSkippedOnly ==
    /\ \A i \in 1..Len(calls) :
         /\ calls[i].path = "insufficient"
              <=> (calls[i].raises # "history" /\ calls[i].bars < 50)
         /\ (calls[i].raises = "none" /\ calls[i].bars = 50)
              => calls[i].path = "record"
    /\ (pc = "scan" /\ idx > Len(WATCHLIST)) =>
         \A s \in 1..Len(calls) :
            ( /\ calls[s].raises = "none" /\ calls[s].bars < 50
              /\ \A o \in 1..Len(calls) :
                    o # s => calls[o].raises = "none" /\ calls[o].bars >= 50 )
            => SymbolsOf(analyzed_stocks)
                 = SubSeq(WATCHLIST, 1, s - 1)
                     \o SubSeq(WATCHLIST, s + 1, Len(WATCHLIST))

\* the second ticker came with 10 bars, another with exactly 50
C2_Witness ==
    /\ pc = "scan" /\ idx > Len(WATCHLIST)
    /\ calls[2].bars = ShortBars /\ calls[2].path = "insufficient"
    /\ calls[1].bars = MinBars /\ calls[1].path = "record"
    /\ SymbolsOf(analyzed_stocks)
         = <<WATCHLIST[1]>> \o SubSeq(WATCHLIST, 3, Len(WATCHLIST))

\* C3: an error while fetching or computing one ticker skips that ticker
\* only: the exception never leaves get_top_movers, every symbol of the
\* watchlist is analysed in order, every ticker whose analysis produced a
\* record is collected, and for [A, B, C] with A scoring 10, B scoring 8 and
\* C failing to fetch, limit 5 returns [A, B].
C3_ErrorSkipsOneTicker ==
    /\ pc # "raised"
    /\ \A i \in 1..Len(calls) : calls[i].symbol = WATCHLIST[i]
    /\ \A i \in 1..Len(calls) :
         calls[i].raises # "none" => calls[i].path = "error"
    /\ Len(analyzed_stocks) = Cardinality(RecordCalls)
    /\ {analyzed_stocks[i].symbol : i \in 1..Len(analyzed_stocks)}
         = {calls[i].symbol : i \in RecordCalls}
    /\ pc = "done" =>
         /\ Len(calls) = Len(WATCHLIST)
         /\ ( /\ limit = 5
              /\ calls[1].path = "record" /\ TrueProduct(1) = Fin(10, 1)
              /\ calls[2].path = "record" /\ TrueProduct(2) = Fin(8, 1)
              /\ \A i \in 3..Len(calls) : calls[i].raises = "history" )
            => SymbolsOf(top_stocks) = <<WATCHLIST[1], WATCHLIST[2]>>

\* A scores 10, B scores 8, C's fetch fails, limit 5
C3_Witness ==
    /\ pc = "done"
    /\ limit = 5
    /\ Len(calls) >= 3
    /\ calls[1].path = "record" /\ TrueProduct(1) = Fin(10, 1)
    /\ calls[2].path = "record" /\ TrueProduct(2) = Fin(8, 1)
    /\ \A i \in 3..Len(calls) : calls[i].raises = "history"
    /\ SymbolsOf(top_stocks) = <<WATCHLIST[1], WATCHLIST[2]>>
    /\ top_stocks[1].movement_score = Fin(10, 1)
    /\ top_stocks[2].movement_score = Fin(8, 1)

\* C4: for limit >= 0 and k successfully analysed tickers the result has
\* exactly min(limit, k) records, the first min(limit, k) of the full
\* ranking, without padding and without a repeated record.
C4_TruncatesToLimit ==
    pc = "done" =>
        /\ Len(analyzed_stocks) = Cardinality(RecordCalls)
        /\ Len(top_stocks) = Min(limit, Cardinality(RecordCalls))
        /\ top_stocks = SubSeq(analyzed_stocks, 1, Len(top_stocks))
        /\ \A i, j \in 1..Len(top_stocks) :
             i # j => top_stocks[i].symbol # top_stocks[j].symbol

\* more records than the limit: the ranking is cut
C4_Witness ==
    /\ pc = "done"
    /\ limit = 2
    /\ Len(analyzed_stocks) = 3
    /\ Len(top_stocks) = 2

\* fewer records than the limit: all of them are returned
C4_WitnessFewer ==
    /\ pc = "done"
    /\ limit = 5
    /\ Len(analyzed_stocks) = 2
    /\ Len(top_stocks) = 2

\* C5: the movement_score of every analysed ticker equals
\* |dailyChangePct| * volumeRatio of the values computed for it, so the
\* ranking follows the true products.
C5_ScoreIsTrueProduct ==
    /\ \A i \in RecordCalls :
         \A j \in 1..Len(analyzed_stocks) :
            analyzed_stocks[j].symbol = calls[i].symbol
              => analyzed_stocks[j].movement_score = TrueProduct(i)
    /\ pc = "done" =>
         \A i, j \in 1..Len(analyzed_stocks) :
            i < j =>
              ~FLt(TrueProduct(WatchlistIndex(analyzed_stocks[i].symbol)),
                   TrueProduct(WatchlistIndex(analyzed_stocks[j].symbol)))

\* C5, the ranking part alone: the ranking follows the true products
C5_RankedByTrueProduct ==
    pc = "done" =>
        \A i, j \in 1..Len(analyzed_stocks) :
            i < j =>
              ~FLt(TrueProduct(WatchlistIndex(analyzed_stocks[i].symbol)),
                   TrueProduct(WatchlistIndex(analyzed_stocks[j].symbol)))

\* C6: for a flat history (high_52w = low_52w) analyze_stock returns a
\* record whose position_52w is a well-defined number.
C6_FlatPositionIsNumber ==
    \A j \in 1..Len(analyzed_stocks) :
        analyzed_stocks[j].high_52w = analyzed_stocks[j].low_52w
          => IsFin(analyzed_stocks[j].position_52w)

(***************************************************************************)
(* get_technical_signals on its own: SpecSignals                           *)
(***************************************************************************)
MaxSigVal == 3

SigValues == {NaN} \cup {Fin(i, 1) : i \in 1..MaxSigVal}

RsiValues == {NaN, Fin(20, 1), Fin(30, 1), Fin(50, 1), Fin(70, 1), Fin(80, 1)}

InitSignals ==
    /\ sig_in \in [rsi : RsiValues, price : SigValues,
                   sma20 : SigValues, sma50 : SigValues]
    /\ signals = EmptySignals
    /\ IdleScan /\ IdleRsi /\ IdleSum /\ IdleMain

CallSignals ==
    /\ signals = EmptySignals
    /\ signals' = get_technical_signals(sig_in.rsi, sig_in.price,
                                        sig_in.sma20, sig_in.sma50)
    /\ UNCHANGED <<sig_in, scanVars, rsiVars, sumVars, mainVars>>

NextSignals == CallSignals

SpecSignals == InitSignals /\ [][NextSignals]_vars

\* C8: trend_signal is Alcista iff price > sma20 and sma20 > sma50, both
\* strictly, Bajista iff price < sma20 and sma20 < sma50, both strictly, and
\* Mixta otherwise; price = sma20 gives Mixta; rsi plays no part.
C8_TrendStrictChain ==
    signals # EmptySignals =>
        /\ signals.trend_signal = "Alcista"
             <=> (FGt(sig_in.price, sig_in.sma20) /\ FGt(sig_in.sma20, sig_in.sma50))
        /\ signals.trend_signal = "Bajista"
             <=> (FLt(sig_in.price, sig_in.sma20) /\ FLt(sig_in.sma20, sig_in.sma50))
        /\ signals.trend_signal \in {"Alcista", "Bajista", "Mixta/Consolidacion"}
        /\ sig_in.price = sig_in.sma20
             => signals.trend_signal = "Mixta/Consolidacion"

\* price equal to sma20, sma20 above sma50: Mixta, not Alcista
C8_Witness ==
    /\ signals # EmptySignals
    /\ IsFin(sig_in.price)
    /\ sig_in.price = sig_in.sma20
    /\ FGt(sig_in.sma20, sig_in.sma50)
    /\ signals.trend_signal = "Mixta/Consolidacion"

\* C9: ma_signal is Golden Cross iff sma20 > sma50 strictly and Death Cross
\* otherwise, so sma20 = sma50 gives Death Cross; Alcista always comes with
\* Golden Cross and Bajista always with Death Cross.
C9_MaSignalStrict ==
    signals # EmptySignals =>
        /\ signals.ma_signal = "Golden Cross (alcista)"
             <=> FGt(sig_in.sma20, sig_in.sma50)
        /\ signals.ma_signal = "Death Cross (bajista)"
             <=> ~FGt(sig_in.sma20, sig_in.sma50)
        /\ sig_in.sma20 = sig_in.sma50
             => signals.ma_signal = "Death Cross (bajista)"
        /\ signals.trend_signal = "Alcista"
             => signals.ma_signal = "Golden Cross (alcista)"
        /\ signals.trend_signal = "Bajista"
             => signals.ma_signal = "Death Cross (bajista)"

\* equal finite averages: Death Cross
C9_Witness ==
    /\ signals # EmptySignals
    /\ IsFin(sig_in.sma20)
    /\ sig_in.sma20 = sig_in.sma50
    /\ signals.ma_signal = "Death Cross (bajista)"

(***************************************************************************)
(* calculate_rsi on its own: SpecRsi                                       *)
(***************************************************************************)
MaxPrice == 3

MaxRsiLen == 5

MaxPeriod == 3

RECURSIVE SeqsOfLen(_, _)
SeqsOfLen(S, n) ==
    IF n = 0 THEN {<<>>}
    ELSE {Append(s, x) : s \in SeqsOfLen(S, n - 1), x \in S}

PriceSeqs == UNION {SeqsOfLen(1..MaxPrice, n) : n \in 1..MaxRsiLen}

InitRsi ==
    /\ rsi_in \in [prices : PriceSeqs, period : 1..MaxPeriod]
    /\ rsi_out = <<>>
    /\ IdleScan /\ IdleSig /\ IdleSum /\ IdleMain

CallRsi ==
    /\ rsi_out = <<>>
    /\ rsi_out' = <<calculate_rsi(rsi_in.prices, rsi_in.period)>>
    /\ UNCHANGED <<rsi_in, scanVars, sigVars, sumVars, mainVars>>

NextRsi == CallRsi

SpecRsi == InitRsi /\ [][NextRsi]_vars

\* the trailing average gain and loss of the call in rsi_in
AvgGain == RollingMeanLast(GainCol(rsi_in.prices), rsi_in.period)

AvgLoss == RollingMeanLast(LossCol(rsi_in.prices), rsi_in.period)

InRange0To100(x) ==
    IsFin(x) /\ ~FLt(x, Fin(0, 1)) /\ ~FGt(x, Fin(100, 1))

\* C7: for a series of at least period + 1 closes calculate_rsi returns a
\* number in [0, 100], and exactly 100 whenever the trailing average loss
\* is 0, a flat window included.
C7_RsiInRange ==
    (rsi_out # <<>> /\ Len(rsi_in.prices) >= rsi_in.period + 1) =>
        /\ InRange0To100(rsi_out[1])
        /\ AvgLoss = Fin(0, 1) => rsi_out[1] = Fin(100, 1)

\* what the code does give: in [0, 100] when the average loss is positive,
\* 100 when only the average loss is 0, NaN when both averages are 0
C7_CodeBehaviour ==
    (rsi_out # <<>> /\ Len(rsi_in.prices) >= rsi_in.period + 1) =>
        /\ FGt(AvgLoss, Fin(0, 1)) => InRange0To100(rsi_out[1])
        /\ (AvgLoss = Fin(0, 1) /\ FGt(AvgGain, Fin(0, 1)))
             => rsi_out[1] = Fin(100, 1)
        /\ (AvgLoss = Fin(0, 1) /\ AvgGain = Fin(0, 1)) => IsNaN(rsi_out[1])

(***************************************************************************)
(* get_market_summary: SpecSummary                                         *)
(***************************************************************************)
\* the string "N/A" in a field that otherwise holds a float
NA == [k |-> "N/A", n |-> 0, d |-> 1]

\* s.iloc[-back] of a column: the element back - 1 places before the last
ILocFromEnd(s, back) == s[Len(s) - back + 1]

\* ((c[-1] - c[-2]) / c[-2]) * 100, rounded to 2 places
ChangePct(close) ==
    LET last == Fin(ILocFromEnd(close, 1), 1)
        prev == Fin(ILocFromEnd(close, 2), 1)
    IN  Round(FMul(FDiv(FSub(last, prev), prev), Fin(100, 1)), 2)

\* The try block (lines 190-199).  A fetch that raises, or an iloc outside
\* the series (IndexError), leaves the block with an exception.
SummaryTry(f) ==
    IF f.spy.raises \/ f.qqq.raises \/ f.vix.raises
    THEN [path |-> "raise", value |-> <<>>]
    ELSE IF Len(f.spy.close) < 2 \/ Len(f.qqq.close) < 2 \/ Len(f.spy.close) < 5
    THEN [path |-> "raise", value |-> <<>>]
    ELSE [path  |-> "return",
          value |-> <<[spy_change |-> ChangePct(f.spy.close),
                       qqq_change |-> ChangePct(f.qqq.close),
                       vix        |-> IF Len(f.vix.close) # 0
                                      THEN Round(Fin(ILocFromEnd(f.vix.close, 1), 1), 2)
                                      ELSE NA,
                       spy_trend  |-> IF ILocFromEnd(f.spy.close, 1)
                                           > ILocFromEnd(f.spy.close, 5)
                                      THEN "Alcista" ELSE "Bajista"]>>]

\* the bare except (lines 200-201)
SummaryFallback ==
    [spy_change |-> Fin(0, 1), qqq_change |-> Fin(0, 1),
     vix |-> NA, spy_trend |-> "N/A"]

\* faulty variant: the trend comparison is not strict
get_market_summary_NonStrict(f) ==
    LET r == SummaryTry(f)
    IN  IF r.path = "raise" THEN SummaryFallback
        ELSE [r.value[1] EXCEPT !.spy_trend =
                 IF ILocFromEnd(f.spy.close, 1) >= ILocFromEnd(f.spy.close, 5)
                 THEN "Alcista" ELSE "Bajista"]

get_market_summary(f) ==
    LET r == SummaryTry(f)
    IN  IF r.path = "raise" THEN SummaryFallback ELSE r.value[1]

MaxClose == 2

MaxSpyBars == 6

MaxQqqBars == 2

MaxVixBars == 1

CloseSeqs(maxlen) == UNION {SeqsOfLen(1..MaxClose, n) : n \in 0..maxlen}

FeedFetches(maxlen) ==
    {[raises |-> TRUE, close |-> <<>>]}
    \cup {[raises |-> FALSE, close |-> c] : c \in CloseSeqs(maxlen)}

\* the closes of the two feeds of which only the last bars are read
SideCloses == {1, 2}

SideFetches(maxlen) ==
    {[raises |-> TRUE, close |-> <<>>]}
    \cup {[raises |-> FALSE, close |-> c] :
             c \in UNION {SeqsOfLen(SideCloses, n) : n \in 0..maxlen}}

\* how many bars a "5d" or "1d" history holds is up to the data provider
InitSummary ==
    /\ feeds \in [spy : FeedFetches(MaxSpyBars), qqq : SideFetches(MaxQqqBars),
                  vix : SideFetches(MaxVixBars)]
    /\ market_summary = <<>>
    /\ IdleScan /\ IdleSig /\ IdleRsi /\ IdleMain

CallSummary ==
    /\ market_summary = <<>>
    /\ market_summary' = <<get_market_summary(feeds)>>
    /\ UNCHANGED <<feeds, scanVars, sigVars, rsiVars, mainVars>>

NextSummary == CallSummary

SpecSummary == InitSummary /\ [][NextSummary]_vars

\* C10: when a fetch or a computation inside get_market_summary fails, the
\* summary it returns carries the "unavailable" marker in every field: both
\* change percentages, the volatility value and the trend label.
C10_FailureAllUnavailable ==
    (market_summary # <<>> /\ SummaryTry(feeds).path = "raise") =>
        /\ market_summary[1].spy_change = NA
        /\ market_summary[1].qqq_change = NA
        /\ market_summary[1].vix = NA
        /\ market_summary[1].spy_trend = "N/A"

\* what the code does give on a failure: 0 for both changes, "N/A" for the
\* volatility value and the trend label
C10_CodeBehaviour ==
    (market_summary # <<>> /\ SummaryTry(feeds).path = "raise") =>
        /\ market_summary[1].spy_change = Fin(0, 1)
        /\ market_summary[1].qqq_change = Fin(0, 1)
        /\ market_summary[1].vix = NA
        /\ market_summary[1].spy_trend = "N/A"

\* the SPY closes of the call in feeds
SpyClose == feeds.spy.close

C12_WitnessEqual ==
    /\ market_summary # <<>>
    /\ SummaryTry(feeds).path = "return"
    /\ Len(SpyClose) = 5
    /\ SpyClose[5] = SpyClose[1]
    /\ market_summary[1].spy_trend = "Bajista"

(***************************************************************************)
(* main: SpecMain                                                          *)
(***************************************************************************)
BEEHIIV_PUBLICATION_ID == "TU_PUBLICATION_ID"

\* get_top_movers(limit=5)
MainLimit == 5

MsgNoStocks == "No se pudieron analizar acciones"

MsgCompleted == "PROCESO COMPLETADO"

\* faulty variant: the empty list is not noticed
IsEmptyResult_Never(stocks) == FALSE

\* not top_stocks
IsEmptyResult(stocks) == stocks = <<>>

\* the rendered document, reduced to what it is rendered from
generate_newsletter_content(stocks, summary) ==
    [stocks |-> SymbolsOf(stocks), summary |-> summary]

\* the benchmark fetches of a run of main: all three fail, or all succeed
MainFeeds ==
    { [spy |-> [raises |-> TRUE, close |-> <<>>],
       qqq |-> [raises |-> TRUE, close |-> <<>>],
       vix |-> [raises |-> TRUE, close |-> <<>>]],
      [spy |-> [raises |-> FALSE, close |-> <<1, 1, 1, 1, 2>>],
       qqq |-> [raises |-> FALSE, close |-> <<1, 2>>],
       vix |-> [raises |-> FALSE, close |-> <<2>>]] }

InitMain ==
    /\ main_pc = "start"
    /\ printed = <<>>
    /\ html_content = <<>>
    /\ local_file = <<>>
    /\ requests = <<>>
    /\ feeds \in MainFeeds
    /\ market_summary = <<>>
    /\ IdleScan /\ IdleSig /\ IdleRsi

\* 1. the market summary (lines 439-445)
MainSummary ==
    /\ main_pc = "start"
    /\ market_summary' = <<get_market_summary(feeds)>>
    /\ main_pc' = "call_top_movers"
    /\ UNCHANGED <<feeds, printed, html_content, local_file, requests>>
    /\ UNCHANGED <<scanVars, sigVars, rsiVars>>

\* 2. the call get_top_movers(limit=5) (line 449, entering lines 164-168)
MainCallTopMovers ==
    /\ main_pc = "call_top_movers"
    /\ pc = "idle"
    /\ pc' = "scan"
    /\ limit' = MainLimit
    /\ idx' = 1
    /\ calls' = <<>>
    /\ analyzed_stocks' = <<>>
    /\ top_stocks' = <<>>
    /\ main_pc' = "top_movers"
    /\ UNCHANGED <<printed, html_content, local_file, requests>>
    /\ UNCHANGED <<sigVars, rsiVars, sumVars>>

\* if not top_stocks: print the failure and return (lines 451-453)
MainEmpty ==
    /\ main_pc = "top_movers"
    /\ pc = "done"
    /\ IsEmptyResult(top_stocks)
    /\ printed' = Append(printed, MsgNoStocks)
    /\ main_pc' = "stopped"
    /\ UNCHANGED <<html_content, local_file, requests>>
    /\ UNCHANGED <<scanVars, sigVars, rsiVars, sumVars>>

\* 3. list the selected stocks and render the newsletter (lines 455-467)
MainRender ==
    /\ main_pc = "top_movers"
    /\ pc = "done"
    /\ ~IsEmptyResult(top_stocks)
    /\ html_content' =
         <<generate_newsletter_content(top_stocks, market_summary[1])>>
    /\ main_pc' = "save"
    /\ UNCHANGED <<printed, local_file, requests>>
    /\ UNCHANGED <<scanVars, sigVars, rsiVars, sumVars>>

\* 4. save_local_copy (lines 469-470); a failing write raises out of main
MainSave ==
    /\ main_pc = "save"
    /\ \E ok \in BOOLEAN :
         IF ok
         THEN local_file' = html_content /\ main_pc' = "publish"
         ELSE local_file' = local_file /\ main_pc' = "raised"
    /\ UNCHANGED <<printed, html_content, requests>>
    /\ UNCHANGED <<scanVars, sigVars, rsiVars, sumVars>>

\* 5. publish unless the publication id is still the placeholder, then
\* report completion (lines 472-497)
MainPublish ==
    /\ main_pc = "publish"
    /\ requests' =
         IF BEEHIIV_PUBLICATION_ID = "TU_PUBLICATION_ID" THEN requests
         ELSE Append(requests, [publication_id |-> BEEHIIV_PUBLICATION_ID,
                                content |-> html_content[1]])
    /\ printed' = Append(printed, MsgCompleted)
    /\ main_pc' = "completed"
    /\ UNCHANGED <<html_content, local_file>>
    /\ UNCHANGED <<scanVars, sigVars, rsiVars, sumVars>>

NextMain ==
    \/ MainSummary
    \/ MainCallTopMovers
    \/ ScanStep
    \/ SortAndReturn
    \/ MainEmpty
    \/ MainRender
    \/ MainSave
    \/ MainPublish

SpecMain == InitMain /\ [][NextMain]_vars

\* C11: when no ticker survives analysis, get_top_movers returns the empty
\* list, main prints the failure and stops, the run is never reported as
\* completed, and in every run where the returned list is empty no
\* newsletter is rendered, no local copy is saved and no publish request is
\* sent.
C11_EmptyResultStopsRun ==
    /\ (pc = "done" /\ RecordCalls = {}) => top_stocks = <<>>
    /\ (pc = "done" /\ top_stocks = <<>>) =>
         /\ main_pc \in {"top_movers", "stopped"}
         /\ html_content = <<>>
         /\ local_file = <<>>
         /\ requests = <<>>
         /\ \A i \in 1..Len(printed) : printed[i] # MsgCompleted
    /\ main_pc = "stopped" =>
         /\ pc = "done" /\ top_stocks = <<>>
         /\ printed = <<MsgNoStocks>>
    /\ main_pc \in {"save", "publish", "completed", "raised"} =>
         top_stocks # <<>>

\* every ticker of the watchlist was skipped and main stopped
C11_Witness ==
    /\ main_pc = "stopped"
    /\ Len(calls) = Len(WATCHLIST)
    /\ RecordCalls = {}
    /\ top_stocks = <<>>
    /\ printed = <<MsgNoStocks>>
    /\ html_content = <<>> /\ local_file = <<>> /\ requests = <<>>

====
